---- MODULE Spec2Model ----
(***************************************************************************)
(* Model of the trade ingestion pipeline of ohlcv-poc.                     *)
(*                                                                         *)
(* TradeIngestionServiceImpl (src/src/services/trade-ingestion.service.ts) *)
(* runs on the single-threaded JavaScript event loop, so every stretch of  *)
(* code between two await points is one atomic action:                     *)
(*   StartIngestion  the call of startIngestion() up to its first await    *)
(*   WriteResolved   the continuation after writeTrades() resolved         *)
(*   WriteRejected   the catch block after writeTrades() rejected          *)
(*   StopIngestion   a call of stopIngestion()                             *)
(* Each call of startIngestion() owns its local variables (a "run"); the   *)
(* cancellation flag isStopped is a field of the service shared by all of  *)
(* them.  log[r] records, in order, what run r did and saw: its calls to   *)
(* the collaborators, the events emitted while it was in progress and the  *)
(* settlement of its promise; emitted counts every event of the service.   *)
(*                                                                         *)
(* registerRoutes (src/src/server.ts) puts the HTTP routes in front of the *)
(* service: currentStatus is the status it tracks through its listeners,   *)
(* http the last response it sent.  Spec drives the service directly, as   *)
(* its unit tests do; SpecHttp drives it through the routes only;          *)
(* SpecThrows adds a generator whose generateBatch() may throw,            *)
(* SpecShutdown the onClose hook of the server, SpecListener listeners     *)
(* that throw and SpecEvents listeners registered while the loop runs;     *)
(* SpecEnv starts from any integers TOTAL_TRADES and BATCH_SIZE.           *)
(*                                                                         *)
(* The collaborators are modelled on their own as well: gen is a           *)
(* TradeGeneratorServiceImpl instance (SpecGen, SpecFalling, SpecPrice     *)
(* for generateRandomPrice and SpecTimestamp for                           *)
(* generateRandomTimestamp), other a second one, writeApi the write API of *)
(* InfluxDBRepositoryImpl (SpecRepo), and SpecTrade applies createTrade to *)
(* arguments from small sets.  out holds the last call and its result.     *)
(***************************************************************************)
EXTENDS Integers, Sequences, FiniteSets, TLC

\* ------------------------------------------------------------------ bounds
MaxTotal == 3
MaxBatch == 2
\* The largest number of loop iterations a configuration asks for.
MaxIter == 2
MaxRuns == 2
MaxStops == 2
\* The largest batch asked of generateBatch() and the number of calls made.
MaxGen == 1
MaxGenCalls == 2
\* The largest batch handed to writeTrades() and the number of calls made.
MaxWrite == 2
MaxWriteCalls == 2
\* The largest number given to createTrade() as price or amount.
MaxNumber == 1

\* The error objects a writeTrades() promise may reject with: each rejection
\* raises an object of its own, named by the run and the number of the call.
Errors == (1..MaxRuns) \X (1..MaxTotal)

\* An error object that no writeTrades() call raised.
NoError == <<0, 0>>

\* What a registered 'progress' listener does when it is called.
ListenerActs == {"none", "stop"}

VARIABLES
    totalTrades,   \* TradeGenerationConfig.totalTrades
    batchSize,     \* TradeGenerationConfig.batchSize
    isStopped,     \* TradeIngestionServiceImpl.isStopped
    runs,          \* one record of local variables per startIngestion() call
    stops,         \* number of stopIngestion() calls made so far
    log,           \* log[r]: calls, events and settlement of run r, in order
    emitted,       \* number of events of each type emitted by this.events
    currentStatus, \* registerRoutes: let currentStatus
    http,          \* the last HTTP response sent by the routes
    gen,           \* the TradeGeneratorServiceImpl instance
    other,         \* a second TradeGeneratorServiceImpl instance
    listeners,     \* this.events: registered listeners and the calls made
    writeApi,      \* InfluxDBRepositoryImpl.writeApi, the sink
    out            \* the last call made on a collaborator and its result

service == <<totalTrades, batchSize, isStopped, runs, stops, log, emitted>>
collaborators == <<gen, other, listeners, writeApi, out>>
vars == <<totalTrades, batchSize, isStopped, runs, stops, log, emitted,
          currentStatus, http, gen, other, listeners, writeApi, out>>

\* ----------------------------------------------------------------- helpers
Min(a, b) == IF a <= b THEN a ELSE b

\* A JavaScript number that results from a division, kept exact.
Rat(n, d) == [num |-> n, den |-> d]
RatEq(q, k) == q.den # 0 /\ q.num = k * q.den

RunIds == DOMAIN runs
InProgress(r) == runs[r].pc = "writing"
Active == {r \in RunIds : InProgress(r)}
Finished(r) == runs[r].pc \in {"resolved", "rejected"}

EventTypes == {"progress", "complete", "error", "stopped"}

Entry(k, r) ==
    [k |-> k, run |-> r, n |-> 0, total |-> 0, pct |-> Rat(0, 1),
     est |-> "none", err |-> NoError]

\* The number of events of type t in a stretch of log.
RECURSIVE CountOf(_, _)
CountOf(s, t) ==
    IF s = << >> THEN 0
    ELSE (IF Head(s).k = t THEN 1 ELSE 0) + CountOf(Tail(s), t)

\* The number of writeTrades() calls in a log.
WritesOf(s) == CountOf(s, "writeTrades")

\* EventEmitter.emit: the events of a stretch of log are counted.
Emit(em, s) == [t \in EventTypes |-> em[t] + CountOf(s, t)]

\* Variant: the total still to be generated, counted down by the calls made.
getTotalTradesLeft == totalTrades - gen.calls

\* getTotalTrades() / getRecommendedBatchSize()
getTotalTrades == totalTrades
getRecommendedBatchSize == batchSize

\* --------------------------------------------------- startIngestion pieces
\* Variant: a new run inherits the cancellation flag as it finds it.
ResetStoppedKept(stopped) == stopped

\* this.isStopped = false
ResetStopped(stopped) == FALSE

\* Variant: the loop body runs once before the target is compared.
LoopConditionInclusive(run, stopped) ==
    run.processedTrades <= run.totalTrades /\ ~stopped

\* Variant: the loop condition without the cancellation flag.
LoopConditionNoFlag(run, stopped) ==
    run.processedTrades < run.totalTrades

\* while (processedTrades < totalTrades && !this.isStopped)
LoopCondition(run, stopped) ==
    run.processedTrades < run.totalTrades /\ ~stopped

\* Variant: the batch is not clipped to the remaining trades.
CurrentBatchSizeNoClip(run) == run.batchSize

\* Math.min(batchSize, totalTrades - processedTrades)
CurrentBatchSize(run) ==
    Min(run.batchSize, run.totalTrades - run.processedTrades)

\* Variant: the counter advances by the configured batch size.
AdvanceProcessedFull(run) == run.processedTrades + run.batchSize

\* processedTrades += currentBatchSize
AdvanceProcessed(run) == run.processedTrades + run.currentBatchSize

\* The payload of the 'progress' event.  elapsedMs and tradesPerSecond are
\* readings of the wall clock and are left out; estimatedRemainingMs is
\* computed from them ("clock"), where 'complete' carries the literal 0.
ProgressEvent(r, run) ==
    [Entry("progress", r) EXCEPT
        !.n = run.processedTrades,
        !.total = run.totalTrades,
        !.pct = Rat(run.processedTrades * 100, run.totalTrades),
        !.est = "clock"]

\* Variant: 'complete' carries the computed percentage of a snapshot.
CompleteEventSnapshot(r, run) ==
    [Entry("complete", r) EXCEPT
        !.n = run.processedTrades,
        !.total = run.totalTrades,
        !.pct = Rat(run.processedTrades * 100, run.totalTrades),
        !.est = "0"]

\* The payload of the 'complete' event.
CompleteEvent(r, run) ==
    [Entry("complete", r) EXCEPT
        !.n = run.processedTrades,
        !.total = run.totalTrades,
        !.pct = Rat(100, 1),
        !.est = "0"]

\* if (!this.isStopped) emit 'complete'
EmitsComplete(stopped) == ~stopped

\* Variant: the event carries a new error instead of the caught one.
ErrorEventRewrapped(r, err) == [Entry("error", r) EXCEPT !.err = NoError]

\* this.events.emit('error', error)
ErrorEvent(r, err) == [Entry("error", r) EXCEPT !.err = err]

\* this.events.emit('stopped'): no payload, and nothing that names a run.
StoppedEvent == Entry("stopped", 0)

\* What a call of stopIngestion() adds to the log of a run in progress:
\* the call, then the event it emits.
StopCall == << Entry("stopIngestion", 0), StoppedEvent >>

\* Variant: the next batch is generated while the write is still pending.
LoopHeadPipelined(r, run, stopped) ==
    IF LoopCondition(run, stopped)
    THEN LET cur == CurrentBatchSize(run)
         IN [run |-> [run EXCEPT !.currentBatchSize = cur, !.pc = "writing"],
             out |-> << [Entry("generateBatch", r) EXCEPT !.n = cur],
                        [Entry("writeTrades", r) EXCEPT !.n = cur],
                        [Entry("generateBatch", r) EXCEPT !.n = cur] >>]
    ELSE [run |-> [run EXCEPT !.pc = "resolved"],
          out |-> (IF EmitsComplete(stopped)
                   THEN << CompleteEvent(r, run) >> ELSE << >>)
                  \o << Entry("resolve", r) >>]

\* One pass from the loop condition to the next await or to the return.
\* Yields the run's new local variables and what is appended to the log.
LoopHead(r, run, stopped) ==
    IF LoopCondition(run, stopped)
    THEN LET cur == CurrentBatchSize(run)
         IN [run |-> [run EXCEPT !.currentBatchSize = cur, !.pc = "writing"],
             out |-> << [Entry("generateBatch", r) EXCEPT !.n = cur],
                        [Entry("writeTrades", r) EXCEPT !.n = cur] >>]
    ELSE [run |-> [run EXCEPT !.pc = "resolved"],
          out |-> (IF EmitsComplete(stopped)
                   THEN << CompleteEvent(r, run) >> ELSE << >>)
                  \o << Entry("resolve", r) >>]

\* Variant: a stop request pre-empts the batch whose write was pending.
OnWriteResolvedPreemptive(r, run, stopped) ==
    IF stopped
    THEN [run |-> run, out |-> << Entry("writeOk", r) >>]
    ELSE LET run1 == [run EXCEPT !.processedTrades = AdvanceProcessed(run)]
         IN [run |-> run1,
             out |-> << Entry("writeOk", r), ProgressEvent(r, run1) >>]

\* The statements after "await writeTrades(trades)" up to the emit of
\* 'progress'.  stopped is the value of isStopped at that point; the code
\* does not read it there.
OnWriteResolved(r, run, stopped) ==
    LET run1 == [run EXCEPT !.processedTrades = AdvanceProcessed(run)]
    IN [run |-> run1,
        out |-> << Entry("writeOk", r), ProgressEvent(r, run1) >>]

\* Variant: a rejected write is submitted a second time.
OnWriteRejectedRetry(r, run, err) ==
    [run |-> run,
     out |-> << [Entry("writeFail", r) EXCEPT !.err = err],
                [Entry("writeTrades", r) EXCEPT !.n = run.currentBatchSize] >>]

\* catch (error) { emit 'error'; throw error }
OnWriteRejected(r, run, err) ==
    [run |-> [run EXCEPT !.pc = "rejected", !.error = err],
     out |-> << [Entry("writeFail", r) EXCEPT !.err = err],
                ErrorEvent(r, err),
                [Entry("reject", r) EXCEPT !.err = err] >>]

\* Variant: the catch block reports the failure and does not rethrow it.
LoopHeadThrowsSwallowed(r, run, stopped) ==
    IF LoopCondition(run, stopped)
    THEN LET cur == CurrentBatchSize(run)
             err == <<r, run.processedTrades + 1>>
         IN [run |-> [run EXCEPT !.currentBatchSize = cur,
                                 !.pc = "resolved", !.error = err],
             out |-> << [Entry("generateBatch", r) EXCEPT !.n = cur],
                        [Entry("generateFail", r) EXCEPT !.err = err],
                        ErrorEvent(r, err),
                        Entry("resolve", r) >>]
    ELSE LoopHead(r, run, stopped)

\* generateBatch() throws inside the try block: the loop condition held, the
\* call was made, and the catch block emits 'error' and rethrows.
LoopHeadThrows(r, run, stopped) ==
    IF LoopCondition(run, stopped)
    THEN LET cur == CurrentBatchSize(run)
             err == <<r, run.processedTrades + 1>>
         IN [run |-> [run EXCEPT !.currentBatchSize = cur,
                                 !.pc = "rejected", !.error = err],
             out |-> << [Entry("generateBatch", r) EXCEPT !.n = cur],
                        [Entry("generateFail", r) EXCEPT !.err = err],
                        ErrorEvent(r, err),
                        [Entry("reject", r) EXCEPT !.err = err] >>]
    ELSE LoopHead(r, run, stopped)

\* ------------------------------------------------- registerRoutes pieces
\* error.message: the text of an error object.
MessageOf(err) == [text |-> err]
NoMessage == [text |-> NoError]

\* A StatusResponse without the optional progress member.
NoProgress == Entry("none", 0)

\* let currentStatus: StatusResponse = { status: 'idle' }
IdleStatus ==
    [status |-> "idle", progress |-> NoProgress, error |-> NoMessage]

\* Variant: the status is left as it is until the first event arrives.
ResetStatusKept(cs) == cs

\* currentStatus = { status: 'running' }
ResetStatus(cs) ==
    [status |-> "running", progress |-> NoProgress, error |-> NoMessage]

\* events.on('progress', ...)
OnProgress(cs, e) ==
    [status |-> "running", progress |-> e, error |-> NoMessage]

\* events.on('complete', ...)
OnComplete(cs, e) ==
    [status |-> "completed",
     progress |-> [e EXCEPT !.pct = Rat(100, 1), !.est = "0"],
     error |-> NoMessage]

\* Variant: the listener records the state without the message.
OnErrorNoMessage(cs, e) ==
    [status |-> "error", progress |-> NoProgress, error |-> NoMessage]

\* events.on('error', ...)
OnError(cs, e) ==
    [status |-> "error", progress |-> NoProgress, error |-> MessageOf(e.err)]

\* The route listeners called, in order, for a stretch of log; there is
\* no listener for 'stopped'.
RECURSIVE Deliver(_, _)
Deliver(cs, s) ==
    IF s = << >> THEN cs
    ELSE LET e == Head(s)
             cs1 == CASE e.k = "progress" -> OnProgress(cs, e)
                      [] e.k = "complete" -> OnComplete(cs, e)
                      [] e.k = "error" -> OnError(cs, e)
                      [] OTHER -> cs
         IN Deliver(cs1, Tail(s))

\* Variant: a start request is never taken for a duplicate.
AlreadyRunningNever(cs) == FALSE

\* if (currentStatus.status === 'running')
AlreadyRunning(cs) == cs.status = "running"

\* Variant: a stop request is passed on whatever the status is.
NotRunningNever(cs) == FALSE

\* if (currentStatus.status !== 'running')
NotRunning(cs) == cs.status # "running"

\* A response; id tells the responses of successive requests apart, status
\* is the body of a GET /api/status response.
NoResponse ==
    [id |-> 0, req |-> "none", code |-> 0, msg |-> "", status |-> IdleStatus]

Response(last, req, code, msg) ==
    [id |-> 1 - last.id, req |-> req, code |-> code, msg |-> msg,
     status |-> IdleStatus]

\* ------------------------------------------------------- JavaScript values
\* A number: NaN, or a value.  Prices are counted in cents, baseline prices
\* in millionths of a dollar, amounts in units, instants in milliseconds.
NaN == [nan |-> TRUE, v |-> 0]
Num(v) == [nan |-> FALSE, v |-> v]

\* x <= 0: a comparison with NaN is false.
LeqZero(x) == ~x.nan /\ x.v <= 0

\* A Date: its time value is NaN (an invalid date) or an instant, counted
\* in milliseconds from a UTC midnight.
InvalidDate == [valid |-> FALSE, time |-> 0]
DateOf(t) == [valid |-> TRUE, time |-> t]

Seconds(n) == n * 1000
Minutes(n) == n * 60000
Hours(n) == n * 3600000
Days(n) == n * 86400000
Dollars(n) == n * 1000000

\* floor(a * n / d) for a >= 0 and d > 0, without forming the product a * n.
MulDiv(a, n, d) == (a \div d) * n + ((a % d) * n) \div d

\* Math.floor(u * k) for a draw u of Math.random().
Floor(u, k) == MulDiv(k, u.num, u.den)

\* A string is the sequence of its characters.
Whitespace == {" "}

RECURSIVE TrimStart(_)
TrimStart(str) ==
    IF str # << >> /\ Head(str) \in Whitespace
    THEN TrimStart(Tail(str)) ELSE str

RECURSIVE TrimEnd(_)
TrimEnd(str) ==
    IF str # << >> /\ str[Len(str)] \in Whitespace
    THEN TrimEnd(SubSeq(str, 1, Len(str) - 1)) ELSE str

\* String.prototype.trim
Trim(str) == TrimEnd(TrimStart(str))

AAPL == <<"A", "A", "P", "L">>
MSFT == <<"M", "S", "F", "T">>

\* ------------------------------------------------------------- trade model
\* enum TradeSide { BUY = 'buy', SELL = 'sell' }
TradeSide == [BUY |-> "buy", SELL |-> "sell"]

NoTrade ==
    [symbol |-> << >>, side |-> "", price |-> NaN, amount |-> NaN,
     timestamp |-> InvalidDate]

\* throw new Error(message)
Throw(message) == [ok |-> FALSE, error |-> message, trade |-> NoTrade]

\* createTrade(symbol, side, price, amount, timestamp)
createTrade(symbol, side, price, amount, timestamp) ==
    IF symbol = << >> \/ Trim(symbol) = << >>
    THEN Throw("Symbol is required")
    ELSE IF LeqZero(price)
    THEN Throw("Price must be greater than zero")
    ELSE IF LeqZero(amount)
    THEN Throw("Amount must be greater than zero")
    ELSE IF ~timestamp.valid
    THEN Throw("Valid timestamp is required")
    ELSE [ok |-> TRUE, error |-> "",
          trade |-> [symbol |-> symbol, side |-> side, price |-> price,
                     amount |-> amount, timestamp |-> timestamp]]

\* --------------------------------------------------------- trade generator
\* Values Math.random() may return: the least one, the middle of [0, 1) and
\* one next to the upper end.
UnitDraws == {Rat(0, 1), Rat(1, 2), Rat(999, 1000)}

\* The keys of the baselinePrices map.
SymbolsOf(symbols) == {symbols[i] : i \in DOMAIN symbols}

\* initializeBaselinePrices(): 50 + Math.random() * 450 for each symbol.
initializeBaselinePrices(symbols, draws) ==
    [sym \in SymbolsOf(symbols) |->
        Dollars(50) + Floor(draws[sym], Dollars(450))]

\* new TradeGeneratorServiceImpl(config); calls counts the generateBatch()
\* calls made on the instance, up to the bound of the model.
createTradeGeneratorService(symbols, startDate, endDate, draws) ==
    [symbols |-> symbols,
     startTimestamp |-> startDate,
     endTimestamp |-> endDate,
     timeRange |-> endDate - startDate,
     baselinePrices |-> initializeBaselinePrices(symbols, draws),
     calls |-> 0]

\* Date.prototype.setUTCHours / setUTCMinutes / setUTCSeconds /
\* setUTCMilliseconds with one argument: the other fields are kept.
SetUTCHours(t, h) == t + Hours(h) - Hours((t % Days(1)) \div Hours(1))
SetUTCMinutes(t, m) == t + Minutes(m) - Minutes((t % Hours(1)) \div Minutes(1))
SetUTCSeconds(t, sec) ==
    t + Seconds(sec) - Seconds((t % Minutes(1)) \div Seconds(1))
SetUTCMilliseconds(t, ms) == t + ms - (t % Seconds(1))

\* generateRandomTimestamp(); d holds the five draws it makes.
generateRandomTimestamp(g, d) ==
    LET randomOffset == Floor(d.offset, g.timeRange)
        timestamp == g.startTimestamp + randomOffset
        t1 == SetUTCHours(timestamp, 14 + Floor(d.hour, 7))
        t2 == SetUTCMinutes(t1, Floor(d.minute, 60))
        t3 == SetUTCSeconds(t2, Floor(d.second, 60))
    IN DateOf(SetUTCMilliseconds(t3, Floor(d.ms, 1000)))

\* parseFloat(price.toFixed(2)): a price in millionths, rounded to cents.
ToFixed2(price) == (price + 5000) \div 10000

\* Variant: the drift moves the baseline of every symbol, as one market.
generateRandomPriceAllDrift(g, symbol, d) ==
    LET stored == g.baselinePrices[symbol]
        basePrice == IF stored = 0 THEN Dollars(100) ELSE stored
        variation == d.variation
        drift == d.drift
        price == basePrice + MulDiv(basePrice,
                                    2 * variation.num - variation.den,
                                    20 * variation.den)
    IN [price |-> ToFixed2(price),
        baselinePrices |->
            [sym \in DOMAIN g.baselinePrices |->
                g.baselinePrices[sym]
                    + MulDiv(g.baselinePrices[sym],
                             2 * drift.num - drift.den, 200 * drift.den)]]

\* Variant: the baseline is updated first and the price drawn around the
\* updated baseline.
generateRandomPriceWalkFirst(g, symbol, d) ==
    LET stored == g.baselinePrices[symbol]
        basePrice == IF stored = 0 THEN Dollars(100) ELSE stored
        variation == d.variation
        drift == d.drift
        walked == basePrice + MulDiv(basePrice,
                                     2 * drift.num - drift.den,
                                     200 * drift.den)
        price == walked + MulDiv(walked,
                                 2 * variation.num - variation.den,
                                 20 * variation.den)
    IN [price |-> ToFixed2(price),
        baselinePrices |-> [g.baselinePrices EXCEPT ![symbol] = walked]]

\* generateRandomPrice(symbol); d holds the two draws it makes.  The result
\* is the price in cents and the updated baselinePrices map.
generateRandomPrice(g, symbol, d) ==
    LET stored == g.baselinePrices[symbol]
        basePrice == IF stored = 0 THEN Dollars(100) ELSE stored
        variation == d.variation
        drift == d.drift
        price == basePrice + MulDiv(basePrice,
                                    2 * variation.num - variation.den,
                                    20 * variation.den)
        walked == basePrice + MulDiv(basePrice,
                                     2 * drift.num - drift.den,
                                     200 * drift.den)
    IN [price |-> ToFixed2(price),
        baselinePrices |-> [g.baselinePrices EXCEPT ![symbol] = walked]]

\* generateRandomAmount(): Math.floor(Math.pow(u, 2) * 1000) + 1
generateRandomAmount(u) == (u.num * u.num * 1000) \div (u.den * u.den) + 1

\* The body of the for loop of generateBatch(), once for every element of
\* draws; a throw of createTrade() leaves the loop and the method.
RECURSIVE BatchLoop(_, _, _)
BatchLoop(g, draws, trades) ==
    IF draws = << >>
    THEN [ok |-> TRUE, error |-> "", trades |-> trades, gen |-> g]
    ELSE LET d == Head(draws)
             symbolIndex == Floor(d.symbol, Len(g.symbols))
             symbol == g.symbols[symbolIndex + 1]
             side == IF 2 * d.side.num < d.side.den
                     THEN TradeSide.BUY ELSE TradeSide.SELL
             p == generateRandomPrice(g, symbol, d)
             amount == generateRandomAmount(d.amount)
             timestamp == generateRandomTimestamp(g, d)
             g1 == [g EXCEPT !.baselinePrices = p.baselinePrices]
             made == createTrade(symbol, side, Num(p.price), Num(amount),
                                 timestamp)
         IN IF made.ok
            THEN BatchLoop(g1, Tail(draws), Append(trades, made.trade))
            ELSE [ok |-> FALSE, error |-> made.error, trades |-> << >>,
                  gen |-> g1]

\* generateBatch(batchSize), batchSize = Len(draws)
generateBatch(g, draws) == BatchLoop(g, draws, << >>)

\* ------------------------------------------------------ InfluxDB repository
\* The write API obtained in the constructor: the points handed to
\* writePoint(), the number of flush() calls and whether close() was called.
NewWriteApi == [points |-> << >>, flushes |-> 0, closed |-> FALSE]

\* tradeToPoint(trade)
tradeToPoint(trade) ==
    [measurement |-> "trade",
     tags |-> [symbol |-> trade.symbol, side |-> trade.side],
     fields |-> [price |-> trade.price, amount |-> trade.amount],
     time |-> trade.timestamp]

\* Variant: an empty batch returns before the flush.
writeTradesSkipEmpty(api, trades) ==
    IF trades = << >> THEN api
    ELSE [api EXCEPT
            !.points = @ \o [i \in DOMAIN trades |-> tradeToPoint(trades[i])],
            !.flushes = @ + 1]

\* writeTrades(trades), up to the call of flush()
writeTrades(api, trades) ==
    [api EXCEPT
        !.points = @ \o [i \in DOMAIN trades |-> tradeToPoint(trades[i])],
        !.flushes = @ + 1]

\* close()
close(api) == [api EXCEPT !.closed = TRUE]

\* No call made yet.
NoCall == [fn |-> "none"]

\* The generator and the date range the service specifications run with.
DefaultGenerator ==
    createTradeGeneratorService(<<AAPL>>, 0, Days(2) - Seconds(1),
                                [sym \in {AAPL} |-> Rat(0, 1)])

\* ------------------------------------------------------------ EventEmitter
\* this.events = new EventEmitter(): on holds the registered listeners in
\* the order of their registration, each with the event it listens to and
\* the number of events of that type emitted before it was registered;
\* calls holds the listener calls made so far, each with the listener, the
\* type of the event and its number among the emitted events of that type.
NoListeners == [on |-> << >>, calls |-> << >>]

\* Variant: a new listener is put in front of the others (prependListener).
ListenersOfNewestFirst(on, t) ==
    LET idx == SelectSeq([i \in 1..Len(on) |-> i],
                         LAMBDA i : on[i].event = t)
    IN [i \in 1..Len(idx) |-> idx[Len(idx) + 1 - i]]

\* The listeners of event t, in the order in which emit() calls them.
ListenersOf(on, t) ==
    SelectSeq([i \in 1..Len(on) |-> i], LAMBDA i : on[i].event = t)

\* events.on(t, listener)
on(ls, em, t) ==
    [ls EXCEPT !.on = Append(@, [event |-> t, since |-> em[t]])]

\* events.emit(t, ...): the listeners registered for t are called one after
\* the other before emit() returns; nothing is kept for later listeners.
emit(ls, em, t) ==
    LET to == ListenersOf(ls.on, t)
    IN [ls EXCEPT !.calls = @ \o [i \in 1..Len(to) |->
                                     [l |-> to[i], k |-> t,
                                      no |-> em[t] + 1]]]

\* The emit() calls of a stretch of log, in order; em counts the events
\* emitted before it.
RECURSIVE EmitAll(_, _, _)
EmitAll(ls, em, s) ==
    IF s = << >> THEN ls
    ELSE LET e == Head(s)
         IN IF e.k \in EventTypes
            THEN EmitAll(emit(ls, em, e.k),
                         [em EXCEPT ![e.k] = @ + 1], Tail(s))
            ELSE EmitAll(ls, em, Tail(s))

\* ----------------------------------------------------------------- actions
\* The service and the routes after construction.
ServiceInit ==
    /\ isStopped = FALSE
    /\ runs = << >>
    /\ stops = 0
    /\ log = << >>
    /\ emitted = [t \in EventTypes |-> 0]
    /\ currentStatus = IdleStatus
    /\ http = NoResponse
    /\ listeners = NoListeners

Init ==
    /\ totalTrades \in 0..MaxTotal
    /\ batchSize \in 1..MaxBatch
    /\ totalTrades <= MaxIter * batchSize
    /\ ServiceInit
    /\ gen = DefaultGenerator
    /\ other = DefaultGenerator
    /\ writeApi = NewWriteApi
    /\ out = NoCall

\* A stopIngestion() call is seen by every run that is in progress.
SeenByActive(lg, act, s) ==
    [q \in DOMAIN lg |-> IF q \in act THEN lg[q] \o s ELSE lg[q]]

\* startIngestion(), from the call to the first await (or to the return);
\* throws says whether generateBatch(), if called, throws.
StartWith(throws) ==
    /\ Len(runs) < MaxRuns
    /\ LET r == Len(runs) + 1
           run0 == [totalTrades |-> getTotalTrades,
                    batchSize |-> getRecommendedBatchSize,
                    processedTrades |-> 0,
                    currentBatchSize |-> 0,
                    pc |-> "init",
                    error |-> NoError]
           cleared == ResetStopped(isStopped)
           h == IF throws THEN LoopHeadThrows(r, run0, cleared)
                ELSE LoopHead(r, run0, cleared)
       IN /\ isStopped' = cleared
          /\ runs' = Append(runs, h.run)
          /\ log' = Append(log, << Entry("start", r) >> \o h.out)
          /\ emitted' = Emit(emitted, h.out)
    /\ UNCHANGED <<totalTrades, batchSize, stops>>

StartCore == StartWith(FALSE)

\* The continuation of run r after its pending writeTrades() resolved.
\* The 'progress' listeners run synchronously inside emit(); lst says
\* whether one of them calls stopIngestion(); acts is what the registered
\* listeners may do; throws says whether generateBatch(), if called, throws.
WriteResolvedWith(r, acts, throws) ==
    /\ InProgress(r)
    /\ \E lst \in acts :
        /\ lst = "stop" => stops < MaxStops
        /\ LET w == OnWriteResolved(r, runs[r], isStopped)
               stopped == IF lst = "stop" THEN TRUE ELSE isStopped
               seen == IF lst = "stop" THEN StopCall ELSE << >>
               h == IF throws THEN LoopHeadThrows(r, w.run, stopped)
                    ELSE LoopHead(r, w.run, stopped)
               mine == w.out
           IN /\ isStopped' = stopped
              /\ stops' = IF lst = "stop" THEN stops + 1 ELSE stops
              /\ runs' = [runs EXCEPT ![r] = h.run]
              /\ log' = [SeenByActive(log, Active \ {r}, seen)
                            EXCEPT ![r] = log[r] \o mine \o seen \o h.out]
              /\ emitted' = Emit(emitted, mine \o seen \o h.out)
    /\ UNCHANGED <<totalTrades, batchSize>>

WriteResolvedCore(r, acts) == WriteResolvedWith(r, acts, FALSE)

\* The catch block of run r after its pending writeTrades() rejected.
WriteRejectedCore(r) ==
    /\ InProgress(r)
    /\ \E err \in Errors :
        LET h == OnWriteRejected(r, runs[r], err)
        IN /\ err = <<r, WritesOf(log[r])>>
           /\ runs' = [runs EXCEPT ![r] = h.run]
           /\ log' = [log EXCEPT ![r] = log[r] \o h.out]
           /\ emitted' = Emit(emitted, h.out)
    /\ UNCHANGED <<totalTrades, batchSize, isStopped, stops>>

\* stopIngestion(), called from outside the loop (a timer, a request).
StopCore ==
    /\ stops < MaxStops
    /\ isStopped' = TRUE
    /\ stops' = stops + 1
    /\ log' = SeenByActive(log, Active, StopCall)
    /\ emitted' = Emit(emitted, StopCall)
    /\ UNCHANGED <<totalTrades, batchSize, runs>>

\* The service used directly: no route listener is registered.
StartIngestion ==
    StartCore /\ UNCHANGED <<currentStatus, http, collaborators>>

WriteResolved(r) ==
    /\ WriteResolvedCore(r, ListenerActs)
    /\ UNCHANGED <<currentStatus, http, collaborators>>

WriteRejected(r) ==
    WriteRejectedCore(r) /\ UNCHANGED <<currentStatus, http, collaborators>>

StopIngestion ==
    StopCore /\ UNCHANGED <<currentStatus, http, collaborators>>

Next ==
    \/ StartIngestion
    \/ \E r \in RunIds : WriteResolved(r)
    \/ \E r \in RunIds : WriteRejected(r)
    \/ StopIngestion

Spec == Init /\ [][Next]_vars

\* ------------------------------------------------- a generator that throws
\* The same service with a generator whose generateBatch() may throw (trade
\* construction fails with a validation error).
StartIngestionThrows ==
    /\ StartWith(TRUE)
    /\ UNCHANGED <<currentStatus, http, collaborators>>

WriteResolvedThrows(r) ==
    /\ WriteResolvedWith(r, ListenerActs, TRUE)
    /\ UNCHANGED <<currentStatus, http, collaborators>>

NextThrows ==
    \/ Next
    \/ StartIngestionThrows
    \/ \E r \in RunIds : WriteResolvedThrows(r)

SpecThrows == Init /\ [][NextThrows]_vars

\* ------------------------------------------------------------- HTTP routes
\* What run r appended to its log in this step.
NewEntries(r) ==
    IF r \in DOMAIN log
    THEN SubSeq(log'[r], Len(log[r]) + 1, Len(log'[r]))
    ELSE log'[r]

\* GET /api/status
GetStatus ==
    /\ http' = [Response(http, "status", 200, "")
                   EXCEPT !.status = currentStatus]
    /\ UNCHANGED <<service, currentStatus, collaborators>>

\* POST /api/start
PostStart ==
    /\ IF AlreadyRunning(currentStatus)
       THEN /\ http' = Response(http, "start", 409,
                                "Trade ingestion is already running")
            /\ UNCHANGED <<service, currentStatus>>
       ELSE /\ StartCore
            /\ currentStatus' = Deliver(ResetStatus(currentStatus),
                                        NewEntries(Len(runs) + 1))
            /\ http' = Response(http, "start", 202, "Trade ingestion started")
    /\ UNCHANGED collaborators

\* POST /api/stop
PostStop ==
    /\ IF NotRunning(currentStatus)
       THEN /\ http' = Response(http, "stop", 409,
                                "Trade ingestion is not running")
            /\ UNCHANGED <<service, currentStatus>>
       ELSE /\ StopCore
            /\ http' = Response(http, "stop", 200, "Trade ingestion stopped")
            /\ UNCHANGED currentStatus
    /\ UNCHANGED collaborators

\* The loop's continuations with the route listeners registered; these
\* listeners call nothing on the service.
HttpWriteResolved(r) ==
    /\ WriteResolvedCore(r, {"none"})
    /\ currentStatus' = Deliver(currentStatus, NewEntries(r))
    /\ UNCHANGED <<http, collaborators>>

HttpWriteRejected(r) ==
    /\ WriteRejectedCore(r)
    /\ currentStatus' = Deliver(currentStatus, NewEntries(r))
    /\ UNCHANGED <<http, collaborators>>

NextHttp ==
    \/ GetStatus
    \/ PostStart
    \/ PostStop
    \/ \E r \in RunIds : HttpWriteResolved(r)
    \/ \E r \in RunIds : HttpWriteRejected(r)

SpecHttp == Init /\ [][NextHttp]_vars

\* ------------------------------------------------- the generator on its own
\* The draws behind one trade.  The draw that selects the symbol varies on
\* its own; the draws behind side, price, amount and timestamp are taken
\* low together or high together.
Lo == Rat(0, 1)
Mid == Rat(1, 2)
Hi == Rat(999, 1000)

TradeDraws ==
    {[symbol |-> a, side |-> c, variation |-> c, drift |-> c, amount |-> c,
      offset |-> c, hour |-> c, minute |-> c, second |-> c, ms |-> c] :
        a \in {Lo, Hi}, c \in {Lo, Hi}}

\* Draws of a falling market: the price draws come from the lower half of
\* [0, 1), everything else is the least draw.
FallingDraws ==
    {[symbol |-> Lo, side |-> Lo, variation |-> a, drift |-> b, amount |-> Lo,
      offset |-> Lo, hour |-> Lo, minute |-> Lo, second |-> Lo, ms |-> Lo] :
        a \in {Lo, Mid}, b \in {Lo, Mid}}

SymbolLists == {<<AAPL>>, <<AAPL, MSFT>>}

\* A generator constructed for one of the symbol lists.
InitGenerator(lists, baseDraws) ==
    /\ ServiceInit
    /\ writeApi = NewWriteApi
    /\ out = NoCall
    /\ \E symbols \in lists :
         \E draws \in [SymbolsOf(symbols) -> baseDraws] :
            /\ gen = createTradeGeneratorService(symbols, 0,
                                                 Days(2) - Seconds(1), draws)
            /\ other = createTradeGeneratorService(
                           symbols, 0, Days(2) - Seconds(1),
                           [sym \in SymbolsOf(symbols) |-> Mid])

InitGen ==
    /\ totalTrades \in {0, MaxTotal}
    /\ batchSize \in {1, MaxBatch}
    /\ InitGenerator(SymbolLists, {Lo, Hi})

\* generateBatch(Len(draws)) on the instance.
GenerateBatchWith(draws) ==
    LET res == generateBatch(gen, draws)
    IN /\ gen' = [res.gen EXCEPT !.calls = Min(@ + 1, MaxGenCalls)]
       /\ out' = [fn |-> "generateBatch", n |-> Len(draws), ok |-> res.ok,
                  error |-> res.error, trades |-> res.trades]
       /\ UNCHANGED <<service, currentStatus, http, other, listeners, writeApi>>

GenerateBatch ==
    /\ gen.calls < MaxGenCalls
    /\ \E n \in 0..MaxGen : \E draws \in [1..n -> TradeDraws] :
         GenerateBatchWith(draws)

GetTotalTrades ==
    /\ out' = [fn |-> "getTotalTrades", result |-> getTotalTrades]
    /\ UNCHANGED <<service, currentStatus, http, gen, other, listeners, writeApi>>

GetRecommendedBatchSize ==
    /\ out' = [fn |-> "getRecommendedBatchSize",
               result |-> getRecommendedBatchSize]
    /\ UNCHANGED <<service, currentStatus, http, gen, other, listeners, writeApi>>

NextGen == GenerateBatch \/ GetTotalTrades \/ GetRecommendedBatchSize

SpecGen == InitGen /\ [][NextGen]_vars

\* ---------------------------------------- the generator in a falling market
\* One generator instance over any number of generateBatch() calls.  Every
\* behaviour is one of the generator: the draws are some of those that
\* Math.random() may return.
InitFalling ==
    /\ totalTrades = MaxTotal
    /\ batchSize = MaxBatch
    /\ InitGenerator({<<AAPL>>}, UnitDraws)

GenerateBatchFalling ==
    \E n \in 1..MaxGen : \E draws \in [1..n -> FallingDraws] :
        GenerateBatchWith(draws)

NextFalling == GenerateBatchFalling

SpecFalling == InitFalling /\ [][NextFalling]_vars

\* -------------------------------------------------- generateRandomTimestamp
\* Instants a configuration may name as startDate or endDate.
ConfigInstants ==
    {0, Hours(14), Hours(22), Days(1), Days(1) + Hours(1),
     Days(2) - Seconds(1)}

\* The five draws of one generateRandomTimestamp() call.
TimestampDraws == [{"offset", "hour", "minute", "second", "ms"} -> UnitDraws]

\* A generator constructed for a date range with startDate <= endDate.
InitTimestamp ==
    /\ totalTrades = MaxTotal
    /\ batchSize = MaxBatch
    /\ ServiceInit
    /\ writeApi = NewWriteApi
    /\ out = NoCall
    /\ \E startDate, endDate \in ConfigInstants :
         /\ startDate <= endDate
         /\ gen = createTradeGeneratorService(<<AAPL>>, startDate, endDate,
                                              [sym \in {AAPL} |-> Lo])
         /\ other = gen

\* The call of generateRandomTimestamp() that generateBatch() makes for a
\* trade; its result becomes the trade's timestamp.
GenerateRandomTimestamp ==
    /\ \E d \in TimestampDraws :
         out' = [fn |-> "generateRandomTimestamp",
                 result |-> generateRandomTimestamp(gen, d)]
    /\ UNCHANGED <<service, currentStatus, http, gen, other, listeners, writeApi>>

NextTimestamp == GenerateRandomTimestamp

SpecTimestamp == InitTimestamp /\ [][NextTimestamp]_vars

\* ----------------------------------------------------- generateRandomPrice
\* The number of generateRandomPrice() calls made on the instance.
MaxPriceCalls == 2

\* A generator as constructed: every baseline is in [50, 500).
InitPrice ==
    /\ totalTrades = MaxTotal
    /\ batchSize = MaxBatch
    /\ InitGenerator(SymbolLists, UnitDraws)

\* The call of generateRandomPrice(symbol) that generateBatch() makes for a
\* trade, with the draw of the variation and the draw of the drift taken
\* independently; its result becomes the trade's price.
GenerateRandomPrice ==
    /\ gen.calls < MaxPriceCalls
    /\ \E symbol \in SymbolsOf(gen.symbols), v \in UnitDraws, d \in UnitDraws :
         LET draws == [variation |-> v, drift |-> d]
             p == generateRandomPrice(gen, symbol, draws)
         IN /\ gen' = [gen EXCEPT !.baselinePrices = p.baselinePrices,
                                  !.calls = @ + 1]
            /\ out' = [fn |-> "generateRandomPrice", symbol |-> symbol,
                       draws |-> draws, result |-> p.price]
    /\ UNCHANGED <<service, currentStatus, http, other, listeners, writeApi>>

NextPrice == GenerateRandomPrice

SpecPrice == InitPrice /\ [][NextPrice]_vars

\* -------------------------------------------------------------- createTrade
\* Arguments createTrade() is called with.
SymbolArgs == {<< >>, <<" ">>, <<" ", " ">>, AAPL, <<" ", "A">>}
NumberArgs == {NaN} \cup {Num(v) : v \in -1..MaxNumber}
DateArgs == {InvalidDate, DateOf(0), DateOf(Hours(14))}

InitTrade ==
    /\ totalTrades = MaxTotal
    /\ batchSize = MaxBatch
    /\ ServiceInit
    /\ gen = DefaultGenerator
    /\ other = DefaultGenerator
    /\ writeApi = NewWriteApi
    /\ out = NoCall

CreateTrade ==
    /\ \E symbol \in SymbolArgs, side \in {TradeSide.BUY, TradeSide.SELL},
          price \in NumberArgs, amount \in NumberArgs,
          timestamp \in DateArgs :
         out' = [fn |-> "createTrade",
                 args |-> [symbol |-> symbol, side |-> side, price |-> price,
                           amount |-> amount, timestamp |-> timestamp],
                 result |-> createTrade(symbol, side, price, amount,
                                        timestamp)]
    /\ UNCHANGED <<service, currentStatus, http, gen, other, listeners, writeApi>>

NextTrade == CreateTrade

SpecTrade == InitTrade /\ [][NextTrade]_vars

\* ------------------------------------------------ the repository on its own
\* Trades handed to writeTrades().
TradeArgs ==
    {[symbol |-> AAPL, side |-> TradeSide.BUY, price |-> Num(15025),
      amount |-> Num(100), timestamp |-> DateOf(Hours(14))],
     [symbol |-> MSFT, side |-> TradeSide.SELL, price |-> Num(1),
      amount |-> Num(1), timestamp |-> DateOf(Days(1) + 1)],
     [symbol |-> AAPL, side |-> TradeSide.SELL, price |-> Num(15026),
      amount |-> Num(1000), timestamp |-> DateOf(Hours(14))]}

InitRepo ==
    /\ totalTrades = MaxTotal
    /\ batchSize = MaxBatch
    /\ ServiceInit
    /\ gen = DefaultGenerator
    /\ other = DefaultGenerator
    /\ writeApi = NewWriteApi
    /\ out = [fn |-> "none", trades |-> << >>, call |-> 0]

\* writeTrades(trades) on an open repository; call numbers the calls.
WriteTrades ==
    /\ out.call < MaxWriteCalls
    /\ \E n \in 0..MaxWrite : \E trades \in [1..n -> TradeArgs] :
         /\ writeApi' = writeTrades(writeApi, trades)
         /\ out' = [fn |-> "writeTrades", trades |-> trades,
                    call |-> out.call + 1]
    /\ UNCHANGED <<service, currentStatus, http, gen, other,
                   listeners>>

NextRepo == WriteTrades

SpecRepo == InitRepo /\ [][NextRepo]_vars

\* ----------------------------------------------------------- server shutdown
\* server.close() runs the onClose hook, which closes the repository; the
\* hook calls nothing on the ingestion service.  The runs in progress see
\* the call in their logs.  A closed server answers no request, while the
\* loop's continuations still run.
CloseCall == << Entry("close", 0) >>

Shutdown ==
    /\ ~writeApi.closed
    /\ writeApi' = close(writeApi)
    /\ log' = SeenByActive(log, Active, CloseCall)
    /\ UNCHANGED <<totalTrades, batchSize, isStopped, runs, stops, emitted,
                   currentStatus, http, gen, other, listeners, out>>

Serving == ~writeApi.closed

NextShutdown ==
    \/ Serving /\ GetStatus
    \/ Serving /\ PostStart
    \/ Serving /\ PostStop
    \/ \E r \in RunIds : HttpWriteResolved(r)
    \/ \E r \in RunIds : HttpWriteRejected(r)
    \/ Shutdown

SpecShutdown == Init /\ [][NextShutdown]_vars

\* ------------------------------------------- configuration from environment
\* config.tradeGeneration reads TOTAL_TRADES and BATCH_SIZE with parseInt()
\* and does not validate them: any integer text, "0" and "-1" included, is
\* taken as it is.
EnvIntegers == (0 - 1)..MaxTotal

\* The number of resolved writes of one run the model follows; a loop that
\* is still running after them is left with its next write pending.
MaxSpin == 3

InitEnv ==
    /\ totalTrades \in EnvIntegers
    /\ batchSize \in EnvIntegers
    /\ ServiceInit
    /\ gen = DefaultGenerator
    /\ other = DefaultGenerator
    /\ writeApi = NewWriteApi
    /\ out = NoCall

\* The continuation of run r after a write resolved, with no listener
\* registered that calls back into the service.
EnvWriteResolved(r) ==
    /\ WritesOf(log[r]) <= MaxSpin
    /\ WriteResolvedCore(r, {"none"})
    /\ UNCHANGED <<currentStatus, http, collaborators>>

NextEnv ==
    \/ StartIngestion
    \/ \E r \in RunIds : EnvWriteResolved(r)
    \/ \E r \in RunIds : WriteRejected(r)
    \/ StopIngestion

SpecEnv == InitEnv /\ [][NextEnv]_vars

\* --------------------------------------------------------- listeners throw
\* EventEmitter.emit() calls the listeners synchronously, so an exception
\* thrown by a listener leaves emit() at the place of the call.  Both
\* emit('progress') and emit('complete') stand inside the try block of
\* startIngestion(): the exception reaches its catch block, which emits
\* 'error' with it and rethrows it.
ListenerError(r) == <<r, 0>>

\* The catch block of run r after a listener threw.
OnListenerThrew(r, run) ==
    LET err == ListenerError(r)
    IN [run |-> [run EXCEPT !.pc = "rejected", !.error = err],
        out |-> << [Entry("listenerThrow", r) EXCEPT !.err = err],
                   ErrorEvent(r, err),
                   [Entry("reject", r) EXCEPT !.err = err] >>]

\* One pass from the loop condition on, with a 'complete' listener that
\* throws when it is called.
LoopHeadCompleteThrows(r, run, stopped) ==
    IF ~LoopCondition(run, stopped) /\ EmitsComplete(stopped)
    THEN LET c == OnListenerThrew(r, run)
         IN [run |-> c.run, out |-> << CompleteEvent(r, run) >> \o c.out]
    ELSE LoopHead(r, run, stopped)

\* startIngestion() up to its first await when a 'complete' listener throws:
\* the listener is reached at once when there is nothing to process.
StartCompleteThrows ==
    /\ Len(runs) < MaxRuns
    /\ LET r == Len(runs) + 1
           run0 == [totalTrades |-> getTotalTrades,
                    batchSize |-> getRecommendedBatchSize,
                    processedTrades |-> 0,
                    currentBatchSize |-> 0,
                    pc |-> "init",
                    error |-> NoError]
           cleared == ResetStopped(isStopped)
           h == LoopHeadCompleteThrows(r, run0, cleared)
       IN /\ ~LoopCondition(run0, cleared)
          /\ isStopped' = cleared
          /\ runs' = Append(runs, h.run)
          /\ log' = Append(log, << Entry("start", r) >> \o h.out)
          /\ emitted' = Emit(emitted, h.out)
    /\ UNCHANGED <<totalTrades, batchSize, stops>>
    /\ UNCHANGED <<currentStatus, http, collaborators>>

\* The continuation of run r after a write resolved when a 'progress'
\* listener throws.
ProgressThrows(r) ==
    /\ InProgress(r)
    /\ LET w == OnWriteResolved(r, runs[r], isStopped)
           c == OnListenerThrew(r, w.run)
       IN /\ runs' = [runs EXCEPT ![r] = c.run]
          /\ log' = [log EXCEPT ![r] = log[r] \o w.out \o c.out]
          /\ emitted' = Emit(emitted, w.out \o c.out)
    /\ UNCHANGED <<totalTrades, batchSize, isStopped, stops>>
    /\ UNCHANGED <<currentStatus, http, collaborators>>

\* The continuation of run r after its last write resolved when the
\* 'progress' listeners return and a 'complete' listener throws.
CompleteThrows(r) ==
    /\ InProgress(r)
    /\ LET w == OnWriteResolved(r, runs[r], isStopped)
           h == LoopHeadCompleteThrows(r, w.run, isStopped)
       IN /\ ~LoopCondition(w.run, isStopped)
          /\ EmitsComplete(isStopped)
          /\ runs' = [runs EXCEPT ![r] = h.run]
          /\ log' = [log EXCEPT ![r] = log[r] \o w.out \o h.out]
          /\ emitted' = Emit(emitted, w.out \o h.out)
    /\ UNCHANGED <<totalTrades, batchSize, isStopped, stops>>
    /\ UNCHANGED <<currentStatus, http, collaborators>>

NextListener ==
    \/ Next
    \/ StartCompleteThrows
    \/ \E r \in RunIds : ProgressThrows(r)
    \/ \E r \in RunIds : CompleteThrows(r)

SpecListener == Init /\ [][NextListener]_vars

\* ------------------------------------------- listeners come and go in time
\* The service with listeners that are registered at any moment, before or
\* between the steps of the loop; a listener only observes.
MaxListeners == 2
MaxEventRuns == 1

\* Every entry the step added to the logs of the runs; a stopIngestion()
\* call is seen by every run in progress and is taken once.
Emitted(r) == IF r = 0 THEN StopCall ELSE NewEntries(r)

\* One configuration: a run of MaxIter batches of one trade.
InitEvents ==
    /\ totalTrades = MaxIter
    /\ batchSize = 1
    /\ ServiceInit
    /\ gen = DefaultGenerator
    /\ other = DefaultGenerator
    /\ writeApi = NewWriteApi
    /\ out = NoCall

On ==
    /\ Len(listeners.on) < MaxListeners
    /\ \E t \in EventTypes :
         listeners' = on(listeners, emitted, t)
    /\ UNCHANGED <<service, currentStatus, http, gen, other, writeApi, out>>

\* startIngestion(), called while no run is in progress.
EventsStart ==
    /\ Len(runs) < MaxEventRuns
    /\ Active = {}
    /\ StartCore
    /\ listeners' = EmitAll(listeners, emitted, Emitted(Len(runs) + 1))
    /\ UNCHANGED <<currentStatus, http, gen, other, writeApi, out>>

EventsWriteResolved(r) ==
    /\ WriteResolvedCore(r, {"none"})
    /\ listeners' = EmitAll(listeners, emitted, Emitted(r))
    /\ UNCHANGED <<currentStatus, http, gen, other, writeApi, out>>

EventsWriteRejected(r) ==
    /\ WriteRejectedCore(r)
    /\ listeners' = EmitAll(listeners, emitted, Emitted(r))
    /\ UNCHANGED <<currentStatus, http, gen, other, writeApi, out>>

EventsStop ==
    /\ StopCore
    /\ listeners' = EmitAll(listeners, emitted, Emitted(0))
    /\ UNCHANGED <<currentStatus, http, gen, other, writeApi, out>>

NextEvents ==
    \/ On
    \/ EventsStart
    \/ \E r \in RunIds : EventsWriteResolved(r)
    \/ \E r \in RunIds : EventsWriteRejected(r)
    \/ EventsStop

SpecEvents == InitEvents /\ [][NextEvents]_vars

\* --------------------------------------------------------- reading the log
Sel(r, k) == SelectSeq(log[r], LAMBDA e : e.k = k)
Count(r, k) == Len(Sel(r, k))
GenCalls(r) == Sel(r, "generateBatch")
WriteCalls(r) == Sel(r, "writeTrades")
ProgressOf(r) == Sel(r, "progress")
LastReported(r) ==
    IF ProgressOf(r) = << >> THEN 0 ELSE ProgressOf(r)[Len(ProgressOf(r))].n

RECURSIVE SumN(_)
SumN(s) == IF s = << >> THEN 0 ELSE Head(s).n + SumN(Tail(s))

CeilDiv(a, b) == (a + b - 1) \div b

\* Run r ended by returning and no stopIngestion() call fell into it.
Undisturbed(r) == runs[r].pc = "resolved" /\ Count(r, "stopIngestion") = 0

TerminalEvents == {"complete", "error", "stopped"}

\* ------------------------------------------------------------------ claims

\* C1: a run that is neither stopped nor hit by a failure calls
\* generateBatch and writeTrades ceil(total/batchSize) times each; every
\* requested size is batchSize except the last, which is total mod batchSize
\* when that is non-zero; the sizes sum to total.
C1_BatchCountAndSizes ==
    \A r \in RunIds : Undisturbed(r) =>
        LET g == GenCalls(r)
            w == WriteCalls(r)
            T == runs[r].totalTrades
            B == runs[r].batchSize
            nb == CeilDiv(T, B)
        IN /\ Len(g) = nb
           /\ Len(w) = nb
           /\ \A i \in 1..nb :
                /\ g[i].n = (IF i < nb \/ T % B = 0 THEN B ELSE T % B)
                /\ w[i].n = g[i].n
           /\ SumN(g) = T
           /\ SumN(w) = T

C1_Witness ==
    \E r \in RunIds :
        /\ Undisturbed(r)
        /\ runs[r].totalTrades % runs[r].batchSize # 0
        /\ Len(GenCalls(r)) >= 2

\* C2: in a run that is neither stopped nor hit by a failure every written
\* batch is followed by one 'progress' event, the last of them carries
\* processed = total, and the run ends with exactly one 'complete' event
\* (processed = total, percentage = 100, estimatedRemainingMs = 0), which is
\* its last event.
C2_ProgressThenComplete ==
    \A r \in RunIds : Undisturbed(r) =>
        LET L == log[r]
            p == ProgressOf(r)
            c == Sel(r, "complete")
        IN /\ Len(p) = Len(WriteCalls(r))
           /\ Len(p) = Count(r, "writeOk")
           /\ \A i \in 1..Len(L) :
                L[i].k = "writeOk" => L[i + 1].k = "progress"
           /\ (p # << >> => p[Len(p)].n = runs[r].totalTrades)
           /\ Len(c) = 1
           /\ c[1].n = runs[r].totalTrades
           /\ RatEq(c[1].pct, 100)
           /\ c[1].est = "0"
           /\ L[Len(L) - 1].k = "complete"
           /\ L[Len(L)].k = "resolve"

C2_Witness ==
    \E r \in RunIds : Undisturbed(r) /\ Len(ProgressOf(r)) >= 2

\* C3: every run that has ended has emitted exactly one terminal event
\* ('complete', 'error' or 'stopped'), whatever stop() calls and write
\* outcomes fell into it.
C3_ExactlyOneTerminalEvent ==
    \A r \in RunIds : Finished(r) =>
        Count(r, "complete") + Count(r, "error") + Count(r, "stopped") = 1

\* C4: once a terminal event has been emitted for a run, no 'progress'
\* event of that run follows.
C4_NoProgressAfterTerminal ==
    \A r \in RunIds : \A i, j \in 1..Len(log[r]) :
        (i < j /\ log[r][i].k \in TerminalEvents) => log[r][j].k # "progress"

\* C5: a start() call made while a run is in progress is rejected with an
\* already-running error, starts no loop and leaves the cancellation flag
\* and the runs in progress as they are.
C5_StartWhileRunningRejected ==
    [][ (Active # {} /\ Len(log') > Len(log)) =>
            LET L == log'[Len(log')]
            IN /\ L[Len(L)].k = "reject"
               /\ L[Len(L)].err \notin Errors
               /\ \A i \in 1..Len(L) : L[i].k # "generateBatch"
               /\ isStopped' = isStopped
               /\ \A r \in Active : runs'[r] = runs[r] ]_vars

\* C6: after a stop() call made while a run is in progress, that run begins
\* no new generateBatch call, whatever start() and stop() calls follow.
C6_StopEndsLoop ==
    \A r \in RunIds : \A i, j \in 1..Len(log[r]) :
        (i < j /\ log[r][i].k = "stopIngestion")
            => log[r][j].k # "generateBatch"

\* C7: a stop request does not pre-empt the batch in flight: when the
\* pending write of a run settles while the flag is set, either the write
\* failed, or processed is advanced by the batch's size and a 'progress'
\* event with the new count is emitted before anything else happens.
C7_StopDoesNotPreempt ==
    [][ \A r \in RunIds :
          (InProgress(r) /\ isStopped /\ runs'[r] # runs[r]) =>
             LET n == Len(log[r])
                 L == log'[r]
             IN \/ /\ L[n + 1].k = "writeFail"
                   /\ runs'[r].processedTrades = runs[r].processedTrades
                \/ /\ L[n + 1].k = "writeOk"
                   /\ L[n + 2].k = "progress"
                   /\ L[n + 2].n = runs[r].processedTrades
                                      + runs[r].currentBatchSize
                   /\ runs'[r].processedTrades = L[n + 2].n ]_vars

C7_Witness ==
    \E r \in RunIds : \E i \in 1..Len(log[r]) :
        /\ i + 3 <= Len(log[r])
        /\ log[r][i].k = "stopped"
        /\ log[r][i + 1].k = "writeOk"
        /\ log[r][i + 2].k = "progress"
        /\ log[r][i + 3].k = "resolve"
        /\ log[r][i + 2].n < runs[r].totalTrades

\* C8: when stop() is called once in a run, from the 'progress' listener of
\* batch k with k*batchSize < total, the run ends with exactly k batches
\* written, its last 'progress' event carries k*batchSize, one 'stopped'
\* event and no 'complete' event fire, and start() resolves.
C8_StopBetweenBatches ==
    \A r \in RunIds : \A i \in 2..Len(log[r]) :
        ( /\ log[r][i].k = "stopIngestion"
          /\ log[r][i - 1].k = "progress"
          /\ Count(r, "stopIngestion") = 1
          /\ log[r][i - 1].n < runs[r].totalTrades ) =>
            LET k == Count(r, "progress")
            IN /\ log[r][i - 1].n = k * runs[r].batchSize
               /\ LastReported(r) = k * runs[r].batchSize
               /\ Len(WriteCalls(r)) = k
               /\ Count(r, "writeOk") = k
               /\ Count(r, "stopped") = 1
               /\ Count(r, "complete") = 0
               /\ Count(r, "error") = 0
               /\ runs[r].pc = "resolved"
               /\ log[r][Len(log[r])].k = "resolve"

C8_Witness ==
    \E r \in RunIds : \E i \in 2..Len(log[r]) :
        /\ log[r][i].k = "stopIngestion"
        /\ log[r][i - 1].k = "progress"
        /\ Count(r, "stopIngestion") = 1
        /\ log[r][i - 1].n < runs[r].totalTrades
        /\ Count(r, "progress") >= 1

\* C9: when writeTrades rejects on batch j, start() rejects with that very
\* error, exactly one 'error' event fires and carries it, no 'complete'
\* event fires, and the last processed value reported is the total size of
\* batches 1..j-1.
C9_WriteFailurePropagates ==
    \A r \in RunIds : runs[r].pc = "rejected" =>
        LET L == log[r]
            n == Len(L)
            w == WriteCalls(r)
            done == SumN(SubSeq(w, 1, Len(w) - 1))
        IN /\ L[n].k = "reject"
           /\ L[n - 1].k = "error"
           /\ L[n - 2].k = "writeFail"
           /\ L[n - 2].err \in Errors
           /\ L[n - 1].err = L[n - 2].err
           /\ L[n].err = L[n - 2].err
           /\ Count(r, "error") = 1
           /\ Count(r, "complete") = 0
           /\ LastReported(r) = done
           /\ runs[r].processedTrades = done

C9_Witness ==
    \E r \in RunIds :
        /\ runs[r].pc = "rejected"
        /\ Len(WriteCalls(r)) >= 2
        /\ runs[r].error = <<r, 2>>

\* C10: after a writeTrades call of a run has rejected, the run makes no
\* further generateBatch or writeTrades call; the failed batch was submitted
\* once.
C10_NoRetryAfterFailure ==
    \A r \in RunIds :
        /\ \A i, j \in 1..Len(log[r]) :
             (i < j /\ log[r][i].k = "writeFail")
                => log[r][j].k \notin {"generateBatch", "writeTrades"}
        /\ Count(r, "writeFail") <= 1
        /\ runs[r].pc = "rejected" =>
             /\ Count(r, "writeTrades") = Count(r, "writeOk") + 1
             /\ Count(r, "generateBatch") = Count(r, "writeTrades")

C10_Witness ==
    \E r, q \in RunIds :
        /\ runs[r].pc = "rejected"
        /\ Count(r, "writeOk") >= 1
        /\ q > r
        /\ Count(q, "writeOk") >= 1

\* The number of entries of type k among the first i entries of run r's log.
CountUpTo(r, i, k) == CountOf(SubSeq(log[r], 1, i), k)

\* C11: a run has at most one batch in flight: when generateBatch is called
\* every earlier writeTrades call of the run has settled, and the batch is
\* handed to writeTrades at once.
C11_OneBatchInFlight ==
    \A r \in RunIds :
        /\ Count(r, "writeTrades")
              - Count(r, "writeOk") - Count(r, "writeFail")
           = (IF InProgress(r) THEN 1 ELSE 0)
        /\ \A i \in 1..Len(log[r]) :
             log[r][i].k = "generateBatch" =>
                /\ CountUpTo(r, i, "writeTrades")
                     = CountUpTo(r, i, "writeOk")
                /\ CountUpTo(r, i, "writeFail") = 0
                /\ i < Len(log[r])
                /\ log[r][i + 1].k = "writeTrades"
                /\ log[r][i + 1].n = log[r][i].n

C11_Witness ==
    \E r \in RunIds : InProgress(r) /\ Count(r, "generateBatch") >= 2

\* C13: a stop() call made while no run is in progress emits no event.
C13_IdleStopEmitsNothing ==
    [][ (Active = {} /\ stops' = stops + 1) => emitted' = emitted ]_vars

\* C14: however many stop() calls fall into a run, exactly one 'stopped'
\* event fires for it.
C14_StopIdempotent ==
    \A r \in RunIds :
        Count(r, "stopIngestion") >= 1 => Count(r, "stopped") = 1

\* C15: with total = 0 a run makes no generateBatch and no writeTrades call
\* and emits no 'progress' event; it emits 'complete' with processed = 0 and
\* then settles.
C15_EmptyTarget ==
    \A r \in RunIds : runs[r].totalTrades = 0 =>
        /\ Len(log[r]) = 3
        /\ log[r][1].k = "start"
        /\ log[r][2].k = "complete"
        /\ log[r][2].n = 0
        /\ log[r][3].k = "resolve"
        /\ runs[r].pc = "resolved"

C15_Witness ==
    \E r \in RunIds : runs[r].totalTrades = 0 /\ stops > 0 /\ r > 1

\* C20: once a stopIngestion() call has returned, the runs that were in
\* progress make no further writeTrades call and emit no further 'progress'
\* event.
C20_StoppedWhenStopResolves ==
    \A r \in RunIds : \A i, j \in 1..Len(log[r]) :
        (i < j /\ log[r][i].k = "stopIngestion")
            => log[r][j].k \notin {"writeTrades", "progress"}

\* ------------------------------------------------- claims about the routes
\* This step answers a request of kind q.
Answers(q) == http'.id # http.id /\ http'.req = q

LastRun == runs[Len(runs)]

\* C12: once a run has ended in any terminal state, a start request is
\* accepted and begins a fresh run whose processed count starts from 0.
C12_StartAfterTerminalAccepted ==
    [][ (Answers("start") /\ RunIds # {} /\ Active = {}) =>
            /\ http'.code = 202
            /\ Len(runs') = Len(runs) + 1
            /\ log'[Len(runs')][1].k = "start"
            /\ runs'[Len(runs')].processedTrades = 0
       ]_vars

\* C16: a start request received while the tracked status is 'running' is
\* answered 409 and changes nothing; any other start request is answered
\* 202, and a request is answered 202 only when no earlier run is still in
\* progress.
C16_StartWhileRunningRefused ==
    [][ Answers("start") =>
            /\ currentStatus.status = "running" =>
                 /\ http'.code = 409
                 /\ http'.msg = "Trade ingestion is already running"
                 /\ UNCHANGED <<service, currentStatus>>
            /\ currentStatus.status # "running" =>
                 /\ http'.code = 202
                 /\ Len(runs') = Len(runs) + 1
            /\ http'.code = 202 => Active = {}
       ]_vars

C16_Witness ==
    /\ http.req = "start"
    /\ http.code = 409
    /\ Active # {}
    /\ currentStatus.progress.k = "progress"

\* C17: after a stop request was answered 200, the next stop request is
\* answered 409.
C17_SecondStopRefused ==
    [][ (Answers("stop") /\ http.req = "stop" /\ http.code = 200)
            => http'.code = 409 ]_vars

\* C18: the status is 'idle' before the first accepted start request and
\* 'running', 'completed' or 'error' from then on; the accepted request has
\* set it while the run it began is still in progress.
C18_StatusLeavesIdle ==
    /\ Len(runs) = 0 => currentStatus.status = "idle"
    /\ Len(runs) > 0 =>
         currentStatus.status \in {"running", "completed", "error"}
    /\ (http.req = "start" /\ http.code = 202) =>
         /\ Len(runs) > 0
         /\ InProgress(Len(runs)) => currentStatus.status = "running"
    /\ http.req = "status" =>
         IF Len(runs) = 0
         THEN http.status.status = "idle"
         ELSE http.status.status \in {"running", "completed", "error"}

C18_Witness ==
    /\ http.req = "start"
    /\ http.code = 202
    /\ InProgress(Len(runs))
    /\ Count(Len(runs), "progress") = 0
    /\ Len(runs) = 1

\* C19: after writeTrades rejected in a run started through the routes, the
\* status is 'error' with the failure's message until the next accepted
\* start request.
C19_ErrorStatusKept ==
    (RunIds # {} /\ LastRun.pc = "rejected") =>
        /\ currentStatus.status = "error"
        /\ currentStatus.error = MessageOf(LastRun.error)
        /\ (http.req = "status" /\ http.status.status = "error")
              => http.status = currentStatus

C19_Witness ==
    /\ RunIds # {}
    /\ LastRun.pc = "rejected"
    /\ Count(Len(runs), "progress") >= 1
    /\ http.req = "status"
    /\ http.status.status = "error"

\* ------------------------------------- claims about settlement and counters
Failures(r) == Count(r, "writeFail") + Count(r, "generateFail")

C29_StopWhenNotRunningRefused ==
    [][ (Answers("stop")
           /\ currentStatus.status \in {"idle", "completed", "error"}) =>
            /\ http'.code = 409
            /\ http'.msg = "Trade ingestion is not running"
            /\ stops' = stops
            /\ emitted' = emitted
            /\ UNCHANGED <<service, currentStatus>>
       ]_vars

C29_Witness ==
    /\ http.req = "stop"
    /\ http.code = 409
    /\ currentStatus.status = "completed"
    /\ emitted["stopped"] = 0

\* ----------------------------------------------- claims about the generator
\* C22: generateBatch(n) with n >= 1 returns exactly n trades, each with a
\* symbol of the configured list, a side that is BUY or SELL and an amount
\* that is an integer in 1..1000.
C22_BatchOfNValidTrades ==
    (out.fn = "generateBatch" /\ out.n >= 1) =>
        /\ out.ok
        /\ Len(out.trades) = out.n
        /\ \A i \in 1..Len(out.trades) :
             LET t == out.trades[i]
             IN /\ t.symbol \in SymbolsOf(gen.symbols)
                /\ t.side \in {TradeSide.BUY, TradeSide.SELL}
                /\ ~t.amount.nan
                /\ t.amount.v \in 1..1000

\* C24: whatever generateBatch() calls were made on a generator, every
\* generated trade has a price above 0 and no call fails at trade
\* construction.
C24_PricesPositive ==
    out.fn = "generateBatch" =>
        /\ out.error = ""
        /\ \A i \in 1..Len(out.trades) :
             /\ ~out.trades[i].price.nan
             /\ out.trades[i].price.v > 0

\* C25: getTotalTrades() and getRecommendedBatchSize() return the configured
\* totalTrades and batchSize, before and after any generateBatch() calls,
\* and no call changes the configured values.
C25_GettersReturnConfig ==
    [][ /\ out'.fn = "getTotalTrades" => out'.result = totalTrades
        /\ out'.fn = "getRecommendedBatchSize" => out'.result = batchSize
        /\ totalTrades' = totalTrades
        /\ batchSize' = batchSize
      ]_vars

C25_Witness ==
    /\ out.fn = "getTotalTrades"
    /\ gen.calls >= 2
    /\ totalTrades # batchSize
    /\ gen.baselinePrices # DefaultGenerator.baselinePrices

\* C23: with startDate <= endDate every generated timestamp t is a valid
\* date with startDate <= t <= endDate, the hour, minute, second and
\* millisecond having been set anew.
C23_TimestampInRange ==
    out.fn = "generateRandomTimestamp" =>
        /\ out.result.valid
        /\ gen.startTimestamp <= out.result.time
        /\ out.result.time <= gen.endTimestamp

\* --------------------------------------------- claims about the trade model
\* A string that has a character other than white space.
NonBlank(str) == \E i \in DOMAIN str : str[i] \notin Whitespace

\* x > 0 on numbers.
Positive(x) == ~x.nan /\ x.v > 0

\* C26: createTrade returns a trade holding the five given values exactly
\* when the symbol is non-blank, price > 0, amount > 0 and the timestamp is
\* a valid date; otherwise it throws, returns no trade, and reports the
\* first failing check in the order symbol, price, amount, timestamp.
C26_CreateTradeValidates ==
    out.fn = "createTrade" =>
        LET a == out.args
            res == out.result
        IN /\ res.ok = ( /\ NonBlank(a.symbol)
                         /\ Positive(a.price)
                         /\ Positive(a.amount)
                         /\ a.timestamp.valid )
           /\ res.ok => res.trade = a
           /\ ~res.ok =>
                 /\ res.trade = NoTrade
                 /\ res.error =
                      (IF ~NonBlank(a.symbol) THEN "Symbol is required"
                       ELSE IF ~Positive(a.price)
                       THEN "Price must be greater than zero"
                       ELSE IF ~Positive(a.amount)
                       THEN "Amount must be greater than zero"
                       ELSE "Valid timestamp is required")

\* The same statement over arguments that are not NaN.
C26_HoldsWithoutNaN ==
    (out.fn = "createTrade" /\ ~out.args.price.nan /\ ~out.args.amount.nan)
        => C26_CreateTradeValidates

\* --------------------------------------------- claims about the repository
\* C27: a writeTrades(trades) call hands the sink one point per trade, in
\* the order of the batch, each with measurement 'trade', tag symbol, tag
\* side 'buy' or 'sell', fields price and amount and the trade's timestamp,
\* and then flushes once, also when the batch is empty.
C27_OnePointPerTradeOneFlush ==
    [][ out'.call # out.call =>
          LET trades == out'.trades
              n == Len(trades)
              old == Len(writeApi.points)
              new == writeApi'.points
          IN /\ Len(new) = old + n
             /\ SubSeq(new, 1, old) = writeApi.points
             /\ \A i \in 1..n :
                  /\ new[old + i].measurement = "trade"
                  /\ new[old + i].tags.symbol = trades[i].symbol
                  /\ new[old + i].tags.side
                        = (IF trades[i].side = TradeSide.BUY
                           THEN "buy" ELSE "sell")
                  /\ new[old + i].fields.price = trades[i].price
                  /\ new[old + i].fields.amount = trades[i].amount
                  /\ new[old + i].time = trades[i].timestamp
             /\ writeApi'.flushes = writeApi.flushes + 1
      ]_vars

C27_Witness ==
    /\ out.fn = "writeTrades"
    /\ out.trades = << >>
    /\ out.call = 2
    /\ Len(writeApi.points) = 2
    /\ writeApi.points[1].tags.side # writeApi.points[2].tags.side
    /\ writeApi.flushes = 2

\* C28: once close() has been called on the repository, no writeTrades()
\* call is made on it, also when the server shuts down while a run is in
\* progress.
C28_NoWriteAfterClose ==
    \A r \in RunIds : \A i, j \in 1..Len(log[r]) :
        (i < j /\ log[r][i].k = "close") => log[r][j].k # "writeTrades"

\* C31: in every run each resolved writeTrades() call is followed by exactly
\* one 'progress' event before the next generateBatch() call; the processed
\* values of successive 'progress' events are strictly increasing, each is
\* at most total, each carries the total read at the start of the run, and
\* percentage = processed / total * 100.
C31_ProgressPerBatch ==
    \A r \in RunIds :
        LET L == log[r]
            p == ProgressOf(r)
        IN /\ \A i \in 1..Len(L) :
                L[i].k = "writeOk" =>
                    /\ i < Len(L)
                    /\ L[i + 1].k = "progress"
           /\ \A i \in 1..Len(L) :
                L[i].k = "progress" => (i > 1 /\ L[i - 1].k = "writeOk")
           /\ \A i \in 1..Len(p) :
                /\ p[i].n <= p[i].total
                /\ p[i].total = runs[r].totalTrades
                /\ p[i].pct.den = p[i].total
                /\ p[i].pct.num = p[i].n * 100
           /\ \A i, j \in 1..Len(p) : i < j => p[i].n < p[j].n

\* C38: every loop iteration advances processedTrades by at least one, so
\* a run whose writes all succeed makes at most total iterations and then
\* leaves the loop, whatever integers TOTAL_TRADES and BATCH_SIZE hold.
C38_LoopAdvances ==
    \A r \in RunIds :
        LET g == GenCalls(r)
        IN /\ \A i \in 1..Len(g) : g[i].n >= 1
           /\ (runs[r].totalTrades >= 0 => Len(g) <= runs[r].totalTrades)
           /\ (runs[r].totalTrades < 0 => Len(g) = 0)

\* C37: a stopIngestion() call made while run r was not in progress (before
\* it started or after it ended) does not cancel r: startIngestion() clears
\* isStopped before the first loop check, so with no stopIngestion() call
\* during r and no failure, r passes every loop check with the flag clear
\* and ends only with processed = total and one 'complete' event.
C37_EarlierStopDoesNotCancel ==
    \A r \in RunIds :
        (stops >= 1 /\ Count(r, "stopIngestion") = 0 /\ Failures(r) = 0) =>
            /\ InProgress(r) => ~isStopped
            /\ runs[r].totalTrades > 0 => log[r][2].k = "generateBatch"
            /\ Finished(r) =>
                /\ runs[r].pc = "resolved"
                /\ runs[r].processedTrades = runs[r].totalTrades
                /\ Count(r, "complete") = 1
                /\ Count(r, "writeOk") = Len(WriteCalls(r))
                /\ SumN(WriteCalls(r)) = runs[r].totalTrades

\* The only run started after a stopIngestion() call (the flag is clear and
\* one run exists, so the call came first) and went through two batches.
C37_Witness ==
    /\ Len(runs) = 1
    /\ stops >= 1
    /\ ~isStopped
    /\ Count(1, "stopIngestion") = 0
    /\ runs[1].pc = "resolved"
    /\ runs[1].processedTrades = runs[1].totalTrades
    /\ Count(1, "progress") = 2
    /\ Count(1, "complete") = 1

\* C35: through the routes at most one ingestion loop is in progress at any
\* time: whenever a run exists, every run started before it has ended, for
\* every interleaving of start and stop requests, write completions and
\* write failures.
C35_OneLoopThroughRoutes ==
    /\ Cardinality(Active) <= 1
    /\ \A r, q \in RunIds : r < q => Finished(r)

\* A second run in progress after the first one failed, and a start request
\* refused while it is.
C35_Witness ==
    /\ Len(runs) = 2
    /\ runs[1].pc = "rejected"
    /\ InProgress(2)
    /\ Count(2, "progress") = 1
    /\ http.req = "start"
    /\ http.code = 409

\* C36: the status tracked by the routes is 'running' exactly while an
\* ingestion loop is in progress, in every reachable state; it is what
\* GET /api/status reports.
C36_RunningIffLoopActive ==
    (currentStatus.status = "running") <=> (Active # {})

\* C39: the outcome of a run depends only on generateBatch(), writeTrades()
\* and stopIngestion(): an exception thrown by a 'progress' or 'complete'
\* listener does not end the loop, causes no 'error' event and does not
\* make start() reject, so a run emits 'error' or rejects only when a
\* generateBatch() or writeTrades() call of it failed.
C39_ListenerCannotFailRun ==
    \A r \in RunIds :
        /\ Count(r, "error") >= 1 => Failures(r) >= 1
        /\ runs[r].pc = "rejected" => Failures(r) >= 1

\* b * (1 + (u - 1/2) / (k / 2)) in millionths, for a draw u.
Scaled(b, u, k) == b + MulDiv(b, 2 * u.num - u.den, k * u.den)

Abs(x) == IF x < 0 THEN 0 - x ELSE x

\* C33: for a trade of symbol s with pre-update baseline b the emitted price
\* is b * (1 + v) rounded to 2 decimals with v in [-5%, +5%], and the stored
\* baseline of s becomes b * (1 + d) with d in [-0.5%, +0.5%]; both come
\* from the same pre-update b: the price does not depend on the drift draw
\* and the new baseline does not depend on the variation draw.
C33_PriceAndDriftFromSameBaseline ==
    [][ gen'.calls = gen.calls + 1 =>
          LET s == out'.symbol
              v == out'.draws.variation
              d == out'.draws.drift
              b == gen.baselinePrices[s]
              b2 == gen'.baselinePrices[s]
              p == out'.result
          IN /\ p = ToFixed2(Scaled(b, v, 20))
             /\ Abs(p * 10000 - b) <= b \div 20 + 5001
             /\ b2 = Scaled(b, d, 200)
             /\ Abs(b2 - b) <= b \div 200 + 1
             /\ \A u \in UnitDraws :
                  /\ generateRandomPrice(
                         gen, s, [variation |-> v, drift |-> u]).price = p
                  /\ generateRandomPrice(
                         gen, s, [variation |-> u, drift |-> d]
                     ).baselinePrices[s] = b2
      ]_vars

\* A price drawn at the top of the band while the baseline drifted down:
\* the price is more than 5% above the new baseline.
C33_Witness ==
    /\ out.fn = "generateRandomPrice"
    /\ gen.calls = 2
    /\ out.draws.variation = Hi
    /\ out.draws.drift = Lo
    /\ out.result * 10000 - gen.baselinePrices[out.symbol]
           > gen.baselinePrices[out.symbol] \div 20 + 5001

\* C34: generating one trade writes the baseline of one symbol only, the
\* symbol of that trade (it moves by the drift, at most 0.5%; the drift
\* draws of TradeDraws are not 1/2, the draw that leaves it as it is); the
\* baselines of all other symbols, the configuration and the baselines of
\* another generator instance are unchanged.
C34_OnlyTradeSymbolBaseline ==
    [][ (out'.fn = "generateBatch" /\ gen'.calls = gen.calls + 1) =>
          LET touched == {out'.trades[i].symbol : i \in DOMAIN out'.trades}
          IN /\ out'.ok
             /\ DOMAIN gen'.baselinePrices = DOMAIN gen.baselinePrices
             /\ \A sym \in DOMAIN gen.baselinePrices :
                  sym \notin touched =>
                     gen'.baselinePrices[sym] = gen.baselinePrices[sym]
             /\ Len(out'.trades) = 1 =>
                  LET sym == out'.trades[1].symbol
                      b == gen.baselinePrices[sym]
                      b2 == gen'.baselinePrices[sym]
                  IN /\ b2 # b
                     /\ Abs(b2 - b) <= b \div 200 + 1
             /\ gen'.symbols = gen.symbols
             /\ gen'.startTimestamp = gen.startTimestamp
             /\ gen'.endTimestamp = gen.endTimestamp
             /\ gen'.timeRange = gen.timeRange
             /\ UNCHANGED <<totalTrades, batchSize>>
             /\ other' = other
      ]_vars

\* Two trades of MSFT generated one after the other: the baseline of AAPL
\* is the one set at construction, the baseline of MSFT is not.
C34_Witness ==
    /\ out.fn = "generateBatch"
    /\ Len(out.trades) = 1
    /\ gen.symbols = <<AAPL, MSFT>>
    /\ out.trades[1].symbol = MSFT
    /\ gen.calls = 2
    /\ gen.baselinePrices[AAPL] = Dollars(50)
    /\ gen.baselinePrices[MSFT]
          \notin {Dollars(50), Dollars(50) + Floor(Hi, Dollars(450))}
    /\ other.baselinePrices[MSFT] = Dollars(50) + Floor(Mid, Dollars(450))

\* The calls made on listener l, in order.
CallsOf(l) == SelectSeq(listeners.calls, LAMBDA c : c.l = l)

====
